---- MODULE Spec2Model ----
(***************************************************************************)
(* Model of ECWIntegration (src/ecw_integrations.py): the response         *)
(* classifier _handle_response, the session primitive _make_request /      *)
(* close_session, and the public flows built on them.                      *)
(*                                                                         *)
(* Four specifications share the variables:                                *)
(*   SpecHR    - _handle_response applied to every (status, body) of a     *)
(*               bounded input set;                                        *)
(*   SpecMerge - the history merge of update_history_add_only applied to   *)
(*               bounded existing / new lists;                             *)
(*   SpecValidate - one validator called directly on a fresh instance,     *)
(*               against bounded answers of its lookup;                    *)
(*   Spec      - one ECWIntegration instance on which public flows are     *)
(*               invoked one after the other, each running request by      *)
(*               request against a nondeterministic portal.                *)
(***************************************************************************)
EXTENDS Integers, Sequences, FiniteSets, TLC

VARIABLES
    closed,             \* client_session.closed of the instance
    network_requester,  \* TRUE when a transport was injected through create()
    flow,               \* the public method running (or last run), "none" before any
    pc,                 \* position inside the flow; "idle" between invocations
    req,                \* the arguments of the invocation
    loc,                \* the local variables of the invocation
    sent,               \* requests issued by the invocation, in order
    outcome,            \* how the invocation ended: returned value or raised exception
    completed,          \* TRUE once an invocation has completed on this instance
    hr,                 \* SpecHR: input and result of one _handle_response call
    mg,                 \* SpecMerge: input and result of one history merge
    vd,                 \* SpecValidate: input and result of one validator call
    ov,                 \* SpecOverlap: two invocations overlapping on one instance
    auth_tokens         \* the auth material the instance holds

vars == <<closed, network_requester, flow, pc, req, loc, sent, outcome, completed, hr, mg, vd, ov,
         auth_tokens>>

flowVars == <<closed, network_requester, flow, pc, req, loc, sent, outcome, completed>>

-----------------------------------------------------------------------------
(* Bounds *)

\* longest list a lookup / history response carries in Spec
MaxList == 1
\* most new history items (per section) and new allergies of a request in Spec
MaxNew == 1
\* longest existing / new list of SpecMerge
MaxMerge == 2
\* longest list a lookup answers with in SpecValidate
MaxScan == 2

-----------------------------------------------------------------------------
(* Text helpers: str(int), int(str), str.strip, str.startswith *)

Digit == <<"0", "1", "2", "3", "4", "5", "6", "7", "8", "9">>

RECURSIVE IntToStr(_)
IntToStr(n) ==
    IF n < 10 THEN Digit[n + 1]
    ELSE IntToStr(n \div 10) \o Digit[(n % 10) + 1]

\* int(s) for the strings the model uses: a decimal numeral parses, anything
\* else raises ValueError
IntParses(s) == \E n \in 0..99 : IntToStr(n) = s
StrToInt(s) == CHOOSE n \in 0..99 : IntToStr(n) = s

\* A response text is a sequence of tokens; " " is whitespace.
RECURSIVE LStrip(_)
LStrip(t) == IF Len(t) > 0 /\ Head(t) = " " THEN LStrip(Tail(t)) ELSE t

RECURSIVE RStrip(_)
RStrip(t) ==
    IF Len(t) > 0 /\ t[Len(t)] = " " THEN RStrip(SubSeq(t, 1, Len(t) - 1)) ELSE t

Strip(t) == RStrip(LStrip(t))

StartsWith(t, tok) == Len(t) > 0 /\ t[1] = tok

-----------------------------------------------------------------------------
(* Response bodies and the values decoded from them *)

\* What the text after the marker holds, as far as the decoders and the flows
\* look at it:
\*   shape  "garbage"   the decoder raises
\*          "scalar"    the decoder returns a non-mapping (e.g. extracted note text)
\*          "emptydict" the decoder returns {}
\*          "dict"      the decoder returns a non-empty mapping
\*   err    the "error" entry of the mapping: "none" (absent), "full" (mapping with
\*          message and code), "msgonly" (mapping with message), "nondict" (a string)
\*   has    whether the list key the flow reads is present
\*   items  that list
NoItems == << >>

Content(shape, err, has, items) ==
    [shape |-> shape, err |-> err, has |-> has, items |-> items]

NoContent == Content("none", "none", FALSE, NoItems)

Body(text, content) == [text |-> text, content |-> content]

NoBody == Body(<< >>, NoContent)

\* texts a decoder is selected for, and texts passed through
MarkedTexts ==
    { <<"<?xml">>, <<" ", "<?xml", " ">>, <<"<root">>, <<"<HTML>">>, <<"{">>, <<" ", "{">> }

PlainTexts == { << >>, <<" ">>, <<"true">>, <<"<html>">> }

SeqsUpTo(S, n) == UNION { [1..k -> S] : k \in 0..n }

ContentsOver(lists) ==
    { Content("garbage", "none", FALSE, NoItems),
      Content("scalar", "none", FALSE, NoItems),
      Content("emptydict", "none", FALSE, NoItems),
      Content("dict", "none", FALSE, NoItems),
      Content("dict", "full", FALSE, NoItems),
      Content("dict", "msgonly", FALSE, NoItems),
      Content("dict", "nondict", FALSE, NoItems) }
    \cup { Content("dict", "none", TRUE, l) : l \in lists }

BodiesOver(lists) ==
    { Body(t, NoContent) : t \in PlainTexts }
    \cup { Body(t, c) : t \in MarkedTexts, c \in ContentsOver(lists) }

\* Values: what _handle_response returns
\*   t "text"       the response text itself (passthrough)
\*     "parsed"     what the decoder returned
\*     "parseerror" {"error": {"message": "Parsing error", "raw": response_text}}
Value(t, body) == [t |-> t, body |-> body]

NoValue == Value("none", NoBody)

\* Exceptions
Exc(type, status, message, code, detail) ==
    [type |-> type, status |-> status, message |-> message, code |-> code,
     detail |-> detail]

PlainExc(type) == Exc(type, 0, "", "", NoValue)

HTTPException(status, detail) == Exc("HTTPException", status, "", "", detail)

IntegrationAPIError(message, status, code) ==
    Exc("IntegrationAPIError", status, message, code, NoValue)

\* Results of a call: returned value or raised exception, and whether
\* close_session ran during the call
Ret(v, closes) == [k |-> "ret", v |-> v, e |-> PlainExc("none"), closes |-> closes]
Raise(e, closes) == [k |-> "raise", v |-> NoValue, e |-> e, closes |-> closes]

-----------------------------------------------------------------------------
(* The decoders *)

\* parse_xml_response / parse_progress_note_html: raise on garbage, otherwise
\* return whatever the text holds
DecoderRaises(decoder, content) ==
    \/ content.shape = "garbage"
    \* json.loads of a text starting with "{" yields a mapping or raises
    \/ decoder = "json" /\ content.shape = "scalar"

\* the markers looked for in the text as received, not in the trimmed text
SelectDecoder_Untrimmed(text) ==
    IF StartsWith(text, "<?xml") \/ StartsWith(text, "<root") THEN "xml"
    ELSE IF StartsWith(text, "<HTML>") THEN "html"
    ELSE IF StartsWith(text, "{") THEN "json"
    ELSE "none"

\* the decoder _handle_response selects for a text, "none" for passthrough
SelectDecoder(text) ==
    LET t == Strip(text) IN
    IF StartsWith(t, "<?xml") \/ StartsWith(t, "<root") THEN "xml"
    ELSE IF StartsWith(t, "<HTML>") THEN "html"
    ELSE IF StartsWith(t, "{") THEN "json"
    ELSE "none"

-----------------------------------------------------------------------------
(* Mapping access on values: parsed_data.get("error", {}).get(key, default) *)

IsDict(v) ==
    \/ v.t = "parseerror"
    \/ v.t = "parsed" /\ v.body.content.shape \in {"emptydict", "dict"}

\* bool(v)
Truthy(v) ==
    CASE v.t = "text" -> Len(v.body.text) > 0
      [] v.t = "parseerror" -> TRUE
      [] v.t = "parsed" -> v.body.content.shape # "emptydict"
      [] OTHER -> FALSE

\* parsed_data.get("error", {}) is a mapping
ErrorEntryIsDict(v) ==
    \/ v.t = "parseerror"
    \/ v.t = "parsed" /\ v.body.content.err # "nondict"

ErrorMessage(v) ==
    IF v.t = "parseerror" THEN "Parsing error"
    ELSE IF v.body.content.err \in {"full", "msgonly"} THEN "boom"
    ELSE "Unknown error"

ErrorCode(v, status) ==
    IF v.t = "parsed" /\ v.body.content.err = "full" THEN "E1"
    ELSE IntToStr(status)

-----------------------------------------------------------------------------
(* _handle_response *)

TranslatedStatus == 501

\* the parse-error mapping built from the trimmed text the markers were tested on
ParseBody_RawTrimmed(body) ==
    LET decoder == SelectDecoder(body.text)
        failed == DecoderRaises(decoder, body.content)
    IN
    IF decoder = "none"
    THEN [decoder |-> decoder, passthrough |-> TRUE, value |-> Value("text", body),
          closes |-> FALSE]
    ELSE IF failed
    THEN [decoder |-> decoder, passthrough |-> FALSE,
          value |-> Value("parseerror", [body EXCEPT !.text = Strip(@)]),
          closes |-> TRUE]
    ELSE [decoder |-> decoder, passthrough |-> FALSE, value |-> Value("parsed", body),
          closes |-> FALSE]

\* lines 82-97: decode the body under the selected decoder; a decoder failure closes
\* the session and yields the parse-error mapping.
\* [decoder, passthrough, value, closes]
ParseBody(body) ==
    LET decoder == SelectDecoder(body.text)
        failed == DecoderRaises(decoder, body.content)
    IN
    IF decoder = "none"
    THEN [decoder |-> decoder, passthrough |-> TRUE, value |-> Value("text", body),
          closes |-> FALSE]
    ELSE IF failed
    THEN [decoder |-> decoder, passthrough |-> FALSE,
          value |-> Value("parseerror", body), closes |-> TRUE]
    ELSE [decoder |-> decoder, passthrough |-> FALSE, value |-> Value("parsed", body),
          closes |-> FALSE]

\* success recognised for status 200 only
StatusPolicy_Only200(status, parsed_data, closes) ==
    IF status = 200 THEN Ret(parsed_data, closes)
    ELSE IF ~IsDict(parsed_data) \/ ~ErrorEntryIsDict(parsed_data)
         THEN Raise(PlainExc("AttributeError"), closes)
    ELSE IF 400 <= status /\ status < 500
         THEN Raise(HTTPException(status, parsed_data), TRUE)
    ELSE Raise(IntegrationAPIError(ErrorMessage(parsed_data), status,
                                   ErrorCode(parsed_data, status)), TRUE)

\* lines 99-125: the status policy applied to the parsed data
StatusPolicy(status, parsed_data, closes) ==
    IF 200 <= status /\ status < 300 THEN Ret(parsed_data, closes)
    ELSE IF ~IsDict(parsed_data) \/ ~ErrorEntryIsDict(parsed_data)
         THEN Raise(PlainExc("AttributeError"), closes)
    ELSE IF 400 <= status /\ status < 500
         THEN Raise(HTTPException(status, parsed_data), TRUE)
    ELSE IF status >= 500
         THEN Raise(IntegrationAPIError(
                        "Downstream server error (translated to HTTP 501): "
                            \o ErrorMessage(parsed_data),
                        TranslatedStatus, ErrorCode(parsed_data, status)), TRUE)
    ELSE Raise(IntegrationAPIError(
                   ErrorMessage(parsed_data) \o " (HTTP " \o IntToStr(status) \o ")",
                   status, ErrorCode(parsed_data, status)), TRUE)

\* the trimmed text handed back by the passthrough branch
handle_response_TrimmedPassthrough(status, body) ==
    LET p == ParseBody(body) IN
    IF p.passthrough THEN Ret(Value("text", [body EXCEPT !.text = Strip(@)]), FALSE)
    ELSE StatusPolicy(status, p.value, p.closes)

handle_response(status, body) ==
    LET p == ParseBody(body) IN
    IF p.passthrough THEN Ret(p.value, FALSE)
    ELSE StatusPolicy(status, p.value, p.closes)

-----------------------------------------------------------------------------
(* SpecHR: _handle_response on bounded inputs *)

HRStatuses ==
    {100, 199, 200, 204, 299, 300, 302, 399, 400, 404, 499, 500, 501, 503, 599}

HRLists == SeqsUpTo({"a"}, 1)

\* texts that hold a second marker after their first token
MixedTexts == { <<"<?xml", "{">>, <<"<HTML>", "<?xml">>, <<"{", "<HTML>">> }

HRBodies ==
    BodiesOver(HRLists)
    \cup { Body(t, c) : t \in MixedTexts, c \in ContentsOver(HRLists) }
    \cup { Body(<<"x", "{">>, NoContent) }

NoResult == [k |-> "none", v |-> NoValue, e |-> PlainExc("none"), closes |-> FALSE]

\* decoder and parsed: the decoder the call invoked and its parsed_data
HRIdle ==
    [status |-> 0, body |-> NoBody, out |-> NoResult, called |-> FALSE,
     decoder |-> "", parsed |-> NoValue]

\* requests: the lookups the validator issued
VDIdle ==
    [validator |-> "", name |-> "", resp |-> NoResult, out |-> [kind |-> "", val |-> "", exc |-> ""],
     requests |-> << >>, called |-> FALSE]

\* a second invocation running on the same instance: its flow and argument, how
\* far it is, whether its request met a closed session, how it ended (the
\* exception type when it raised), whether it closed the session and whether
\* the session was open until then
OVIdle ==
    [flow |-> "none", close_session |-> TRUE, pc |-> "idle", onClosed |-> FALSE,
     k |-> "none", exc |-> "none", closes |-> FALSE, closedOpen |-> FALSE]

MGIdle == [existing |-> << >>, n_new |-> 0, out |-> << >>, ok |-> FALSE, called |-> FALSE]

-----------------------------------------------------------------------------
(* The portal as the flows see it *)

\* statuses the portal answers with in Spec
FlowStatuses == {200, 302, 404, 500}

\* names carried by lookup lists; the request asks for TargetName
Names == {"a", "b"}
TargetName == "A"

\* str.lower on the names the model uses
Lower(name) ==
    CASE name = "A" -> "a"
      [] name = "B" -> "b"
      [] name = "Office Visit" -> "office visit"
      [] OTHER -> name

\* displayIndex values of existing history items ("" stands for a missing or empty one)
IndexValues == {"", "1", "3", "x"}

LookupEndpoints ==
    {"get facilities", "get providers", "get provider", "get resons", "get patients"}

HistoryEndpoints == {"get_surgical_history", "get_hospitalization_history"}

\* the lists a response of the endpoint may carry under the key the flow reads
ListsOf(ep) ==
    IF ep \in LookupEndpoints THEN SeqsUpTo(Names, MaxList)
    ELSE IF ep \in HistoryEndpoints THEN SeqsUpTo(IndexValues, MaxList)
    ELSE { }

\* bodies of the endpoints whose answer no flow looks into
OpaqueBodies ==
    { Body(<< >>, NoContent), Body(<<"true">>, NoContent),
      Body(<<"<?xml">>, Content("garbage", "none", FALSE, NoItems)),
      Body(<<"<HTML>">>, Content("scalar", "none", FALSE, NoItems)),
      Body(<<"{">>, Content("dict", "none", FALSE, NoItems)),
      Body(<<"{">>, Content("dict", "full", FALSE, NoItems)),
      Body(<<"{">>, Content("dict", "nondict", FALSE, NoItems)) }

BodiesOf(ep) ==
    IF ep \in LookupEndpoints \cup HistoryEndpoints THEN BodiesOver(ListsOf(ep))
    ELSE OpaqueBodies

\* what an injected network_requester may hand back: any value
RequesterValues(ep) ==
    { Value("text", b) : b \in { x \in BodiesOf(ep) : SelectDecoder(x.text) = "none" } }
    \cup { Value("parsed", b) :
             b \in { x \in BodiesOf(ep) : /\ SelectDecoder(x.text) # "none"
                                          /\ x.content.shape # "garbage" } }

-----------------------------------------------------------------------------
(* _make_request and close_session *)

\* the configured requester ignored: every request goes out on the own session
make_request_OwnSessionOnly(isClosed, injected, ep) ==
    IF isClosed
    THEN { Raise(PlainExc("RuntimeError"), FALSE) }
    ELSE { handle_response(st, b) : st \in FlowStatuses, b \in BodiesOf(ep) }
         \cup { Raise(PlainExc("ClientError"), FALSE) }

\* every request given a session of its own
make_request_FreshSession(isClosed, injected, ep) ==
    IF injected
    THEN { Ret(v, FALSE) : v \in RequesterValues(ep) }
         \cup { Raise(PlainExc("RequesterError"), FALSE) }
    ELSE { handle_response(st, b) : st \in FlowStatuses, b \in BodiesOf(ep) }
         \cup { Raise(PlainExc("ClientError"), FALSE) }

\* the results one call of _make_request can have on the instance as it stands
make_request(isClosed, injected, ep) ==
    IF injected
    THEN { Ret(v, FALSE) : v \in RequesterValues(ep) }
         \cup { Raise(PlainExc("RequesterError"), FALSE) }
    ELSE IF isClosed
    \* aiohttp refuses a request on a closed ClientSession
    THEN { Raise(PlainExc("RuntimeError"), FALSE) }
    ELSE { handle_response(st, b) : st \in FlowStatuses, b \in BodiesOf(ep) }
         \cup { Raise(PlainExc("ClientError"), FALSE) }

\* the auth material given to the constructor
AuthTokens(n) ==
    [sessionDID |-> "s" \o n, TrUserId |-> "u" \o n, x_csrf_token |-> "c" \o n,
     Cookie |-> "k" \o n]

Tokens == { AuthTokens("1"), AuthTokens("2") }

Headers(Cookie, x_csrf_token) == [Cookie |-> Cookie, x_csrf_token |-> x_csrf_token]

NoHeaders == Headers("", "")

\* the CSRF token used up by the headers it was put in
setup_headers_SpendsCsrf(tokens) ==
    [headers |-> Headers(tokens.Cookie, tokens.x_csrf_token),
     tokens |-> [tokens EXCEPT !.x_csrf_token = ""]]

\* _setup_headers: a new mapping filled from the tokens, which are only read.
\* [headers, tokens]: the mapping returned and the tokens as the call leaves them
setup_headers(tokens) ==
    [headers |-> Headers(tokens.Cookie, tokens.x_csrf_token), tokens |-> tokens]

\* generate_set_allergy_item_xml(patient_id, encounter_id, allergy_to_add, index):
\* the item-th new allergy of the request, encoded with a displayIndex
AllergyForm(item, displayIndex) == [item |-> item, displayIndex |-> displayIndex]

NoForm == AllergyForm(0, 0)

\* the index of enumerate() used for the displayIndex
AllergyIndex_FromEnumerate(i) == i

\* current_allergy_display_index for the allergy at position i of enumerate():
\* it starts at 0 and is incremented before each item is encoded
AllergyIndex(i) == i + 1

\* an entry of the request log
\* form: the allergy item a direct allergy POST encodes
Request(ep, method, ts, onClosed, batch) ==
    [ep |-> ep, method |-> method, ts |-> ts, onClosed |-> onClosed, batch |-> batch,
     form |-> NoForm, headers |-> NoHeaders]

-----------------------------------------------------------------------------
(* Invocation state *)

NoOutcome == [k |-> "none", v |-> NoValue, e |-> PlainExc("none"), data |-> << >>]

Returned(v, data) == [k |-> "ret", v |-> v, e |-> PlainExc("none"), data |-> data]
\* the responses gathered so far handed to the caller along with the exception
Raised_WithResponses(e) ==
    [k |-> "raise", v |-> NoValue, e |-> e, data |-> loc.responses]

Raised(e) == [k |-> "raise", v |-> NoValue, e |-> e, data |-> << >>]

\* mappings the flows build themselves
Ack == Value("No new history items to add.", NoBody)
FamilySaved == Value("Family history note likely saved (empty response received).", NoBody)
FamilyUnknown == Value("unknown", NoBody)
Responses == Value("responses", NoBody)

NoReq ==
    [close_session |-> TRUE, resource |-> "", visit_type |-> "", encounterId |-> FALSE,
     date_valid |-> TRUE, n_surg |-> 0, n_hosp |-> 0, med_text |-> "none",
     n_allergy |-> 0]

\* locals of an invocation; closed_at_invoke, not_found and fetches record what
\* happened (the session was already closed when the flow was invoked, the entity a
\* lookup found no match for, how each history fetch went) and are read by no step
NoLoc ==
    [inflight |-> FALSE, closed_at_invoke |-> FALSE, not_found |-> "",
     patient_id |-> "", facility_id |-> "", provider_id |-> "", resource_id |-> "",
     reason_name |-> "", visit_type |-> "", batch |-> << >>, responses |-> << >>,
     headers_bound |-> FALSE, i |-> 0, fetches |-> << >>]

-----------------------------------------------------------------------------
(* Validators: the scan each one runs over the value its lookup returned *)

Found(val) == [kind |-> "found", val |-> val, exc |-> ""]
NotFound == [kind |-> "none", val |-> "", exc |-> ""]
Raises(exc) == [kind |-> "raise", val |-> "", exc |-> exc]

\* the identifier the portal attaches to a list entry
IdOf(name) == "id-" \o name

HasList(v) == v.t = "parsed" /\ v.body.content.has
ListOf(v) == v.body.content.items

Matches(items, name) == { i \in 1..Len(items) : Lower(items[i]) = Lower(name) }

\* the scan stopped at its first match
Last_StopsAtFirst(S) == CHOOSE i \in S : \A j \in S : i <= j

Last(S) == CHOOSE i \in S : \A j \in S : j <= i

\* facilities_list["facilities"], then the scan keeping the last match
validate_facilities(v, facility_name) ==
    IF ~IsDict(v) THEN Raises("TypeError")
    ELSE IF ~HasList(v) THEN Raises("KeyError")
    ELSE IF Matches(ListOf(v), facility_name) = { } THEN NotFound
    ELSE Found(IdOf(ListOf(v)[Last(Matches(ListOf(v), facility_name))]))

\* provider and len(provider.get("result")) > 0, then result[0]["id"]
validate_provider(v, provider_name) ==
    IF ~Truthy(v) THEN NotFound
    ELSE IF ~IsDict(v) THEN Raises("AttributeError")
    ELSE IF ~HasList(v) THEN Raises("TypeError")
    ELSE IF Len(ListOf(v)) = 0 THEN NotFound
    ELSE Found(IdOf(ListOf(v)[1]))

\* reasons["reasons"], then the scan keeping the last match
validate_reason(v, reason_client) ==
    IF ~IsDict(v) THEN Raises("TypeError")
    ELSE IF ~HasList(v) THEN Raises("KeyError")
    ELSE IF Matches(ListOf(v), reason_client) = { } THEN NotFound
    ELSE Found(ListOf(v)[Last(Matches(ListOf(v), reason_client))])

\* the static table reduced_visit_types
reduced_visit_types == << [Description |-> "Office Visit", Name |-> "OV"] >>

validate_visit_type(visit_type) ==
    LET hits == { i \in 1..Len(reduced_visit_types) :
                    Lower(reduced_visit_types[i].Description) = Lower(visit_type) }
    IN IF hits = { } THEN NotFound ELSE Found(reduced_visit_types[Last(hits)].Name)

\* patient_response.get("patients"), then patients[0]["id"]
resolve_patient(v) ==
    IF ~IsDict(v) THEN Raises("AttributeError")
    ELSE IF ~HasList(v) \/ Len(ListOf(v)) = 0 THEN NotFound
    ELSE Found(IdOf(ListOf(v)[1]))

\* the visit-type check forgotten
AbortsNotFound_NoVisitTypeCheck(entity, result) ==
    entity # "Visit Type" /\ result.kind = "none"

\* "if not <result>: raise HTTPException(404, ...)" after the lookup of an entity
\* the check after validate_reason left out
AbortsNotFound_NoReasonCheck(entity, result) ==
    entity # "Reason" /\ result.kind = "none"

AbortsNotFound(entity, result) == result.kind = "none"

NotFoundError(entity) == Exc("HTTPException", 404, entity \o " not found", "", NoValue)

-----------------------------------------------------------------------------
(* The history merge of update_history_add_only *)

Entry(origin, displayIndex, pos) ==
    [origin |-> origin, displayIndex |-> displayIndex, pos |-> pos]

\* current_max_idx after the loop over the existing items; -1 when int() raised
RECURSIVE ScanMaxIdx(_, _, _)
ScanMaxIdx(existing, i, current_max_idx) ==
    IF i > Len(existing) THEN current_max_idx
    ELSE IF existing[i] = "" THEN ScanMaxIdx(existing, i + 1, current_max_idx)
    ELSE IF ~IntParses(existing[i]) THEN -1
    ELSE IF StrToInt(existing[i]) > current_max_idx
         THEN ScanMaxIdx(existing, i + 1, StrToInt(existing[i]))
    ELSE ScanMaxIdx(existing, i + 1, current_max_idx)

\* the counter incremented after the item is built instead of before
NewIndex_IncrementAfter(current_max_idx, k) == IntToStr(current_max_idx + k - 1)

\* the new items numbered from 1, whatever the existing items hold
NewIndex_FromOne(current_max_idx, k) == IntToStr(k)

\* displayIndex given to the k-th new item
NewIndex(current_max_idx, k) == IntToStr(current_max_idx + k)

merge_history(existing, n_new) ==
    LET m == ScanMaxIdx(existing, 1, 0) IN
    IF m < 0 THEN [ok |-> FALSE, items |-> << >>]
    ELSE [ok |-> TRUE,
          items |-> [i \in 1..Len(existing) |-> Entry("existing", existing[i], i)]
                    \o [k \in 1..n_new |-> Entry("new", NewIndex(m, k), k)]]

\* surg_response_xml.get("surgical_history", []) inside the try / except Exception
existing_items(r) ==
    IF r.k = "raise" THEN << >>
    ELSE IF ~IsDict(r.v) THEN << >>
    ELSE IF HasList(r.v) THEN ListOf(r.v)
    ELSE << >>

BatchItem(url, section, ts, payload, args) ==
    [url |-> url, section |-> section, ts |-> ts, payload |-> payload, args |-> args]

-----------------------------------------------------------------------------
(* Public flows *)

\* flows made of one request whose result is returned as it is
SimpleFlows ==
    {"get_facilities", "get_providers", "get_provider", "get_reasons", "get_patients",
     "get_appointments", "get_progress_notes", "search_allergies",
     "add_social_history_note"}

\* flows taking a close_session argument
ParamFlows ==
    {"get_facilities", "get_providers", "get_provider", "get_reasons", "get_patients"}

PublicFlows ==
    SimpleFlows \cup {"add_family_history_note", "create_appointment",
                      "update_history_add_only", "update_med_hx_and_allergies"}

\* the arguments a flow may be invoked with
RequestsOf(f) ==
    IF f \in ParamFlows
    THEN { [NoReq EXCEPT !.close_session = c] : c \in BOOLEAN }
    ELSE IF f = "create_appointment"
    \* date_valid: the date matches the request pattern, yet may name no calendar
    \* day ("02/30/2024"), and then datetime.strptime raises ValueError
    THEN { [NoReq EXCEPT !.resource = r, !.visit_type = vt, !.encounterId = e,
                         !.date_valid = d] :
             r \in {"", "b"}, vt \in {"office visit", "zz"}, e \in BOOLEAN,
             d \in BOOLEAN }
    ELSE IF f = "update_history_add_only"
    THEN { [NoReq EXCEPT !.n_surg = a, !.n_hosp = b] : a \in 0..MaxNew, b \in 0..MaxNew }
    ELSE IF f = "update_med_hx_and_allergies"
    THEN { [NoReq EXCEPT !.med_text = t, !.n_allergy = n] :
             t \in {"none", "blank", "text"}, n \in 0..MaxNew }
    ELSE { NoReq }

\* the section handled whether or not it has new items
SectionChanged_Always(n_new) == TRUE

\* "if request_data.new_surgical_items:" / "if request_data.new_hospitalization_items:"
SectionChanged(n_new) == n_new > 0

\* the medical-history POST issued even when no text was given
EntryPoint_AlwaysMedHx(f, r) ==
    IF f = "create_appointment" THEN "ca_patients"
    ELSE IF f = "update_history_add_only"
    THEN (IF SectionChanged(r.n_surg) THEN "uh_surg"
          ELSE IF SectionChanged(r.n_hosp) THEN "uh_hosp" ELSE "uh_done")
    ELSE IF f = "update_med_hx_and_allergies" THEN "mh_medhx"
    ELSE f

\* where a flow starts
EntryPoint(f, r) ==
    IF f = "create_appointment" THEN "ca_patients"
    ELSE IF f = "update_history_add_only"
    THEN (IF SectionChanged(r.n_surg) THEN "uh_surg"
          ELSE IF SectionChanged(r.n_hosp) THEN "uh_hosp" ELSE "uh_done")
    ELSE IF f = "update_med_hx_and_allergies"
    THEN (IF r.med_text # "none" THEN "mh_medhx" ELSE "mh_flags")
    ELSE f

\* create_appointment without the prime-the-form GET
StepAfter_NoFormGet(at) ==
    CASE at = "ca_patients" -> "ca_facilities"
      [] at = "ca_form" -> "ca_facilities"
      [] at = "ca_facilities" -> "ca_provider"
      [] at = "ca_provider" -> "ca_resource"
      [] at = "ca_resource" -> "ca_reasons"
      [] at = "ca_reasons" -> "ca_post"

\* the statement order of create_appointment: the step that follows a completed one
StepAfter(at) ==
    CASE at = "ca_patients" -> "ca_form"
      [] at = "ca_form" -> "ca_facilities"
      [] at = "ca_facilities" -> "ca_provider"
      [] at = "ca_provider" -> "ca_resource"
      [] at = "ca_resource" -> "ca_reasons"
      [] at = "ca_reasons" -> "ca_post"

\* the two flag entries update_med_hx_and_allergies always queues
FlagBatch ==
    << BatchItem("set_encounter_details", "Medical History", 1, << >>, FALSE),
       BatchItem("set_encounter_details", "Allergies", 2, << >>, TRUE) >>

SocialBatch == << BatchItem("set_annual_notes", "Social", 0, << >>, TRUE) >>

\* every write sent to the create-new endpoint
WriteEndpoint_AlwaysCreate(encounterId) == "post appointment"

\* "if request.encounterId:" (TRUE for a non-empty identifier, FALSE for None or "")
WriteEndpoint(encounterId) ==
    IF encounterId THEN "update appointment" ELSE "post appointment"

\* the request a flow issues at a position: endpoint, method, timestamp offset, envelope
RequestAt(at, r, l, onClosed) ==
    CASE at \in {"get_facilities", "ca_facilities"} ->
            Request("get facilities", "GET", 0, onClosed, << >>)
      [] at = "get_providers" -> Request("get providers", "POST", 0, onClosed, << >>)
      [] at \in {"get_provider", "ca_provider", "ca_resource"} ->
            Request("get provider", "POST", 0, onClosed, << >>)
      [] at \in {"get_reasons", "ca_reasons"} ->
            Request("get resons", "GET", 0, onClosed, << >>)
      [] at \in {"get_patients", "ca_patients"} ->
            Request("get patients", "POST", 0, onClosed, << >>)
      [] at = "get_appointments" -> Request("get appointments", "POST", 0, onClosed, << >>)
      [] at = "get_progress_notes" ->
            Request("get progress notes", "GET", 0, onClosed, << >>)
      [] at = "search_allergies" ->
            Request("allergy_quick_search", "GET", 0, onClosed, << >>)
      [] at = "add_family_history_note" ->
            Request("add family history notes", "POST", 0, onClosed, << >>)
      [] at = "add_social_history_note" ->
            Request("batch_ajax", "POST", 0, onClosed, SocialBatch)
      [] at = "ca_form" -> Request("get appointment", "GET", 0, onClosed, << >>)
      [] at = "ca_post" ->
            Request(WriteEndpoint(r.encounterId), "POST", 0, onClosed, << >>)
      [] at = "uh_surg" -> Request("get_surgical_history", "GET", 0, onClosed, << >>)
      [] at = "uh_hosp" -> Request("get_hospitalization_history", "GET", 3, onClosed, << >>)
      [] at = "uh_post" -> Request("batch_ajax", "POST", 0, onClosed, l.batch)
      [] at = "mh_medhx" ->
            Request("set_encounter_details_medical_history", "POST", 0, onClosed, << >>)
      [] at = "mh_flags" -> Request("batch_ajax", "POST", 0, onClosed, FlagBatch)
      [] at = "mh_allergy" ->
            [Request("set_allergies_for_encounter", "POST", 3 + l.i, onClosed, << >>)
                EXCEPT !.form = AllergyForm(l.i + 1, AllergyIndex(l.i))]

RequestLabels ==
    SimpleFlows \cup
    {"add_family_history_note", "ca_patients", "ca_form", "ca_facilities", "ca_provider",
     "ca_resource", "ca_reasons", "ca_post", "uh_surg", "uh_hosp", "uh_post",
     "mh_medhx", "mh_flags", "mh_allergy"}

\* requests started without waiting for the one before (a fan-out)
AwaitsPrevious_FanOut(l) == TRUE

\* "await self._make_request(...)": the flow is suspended while its request is out,
\* so it reaches its next request only when this one has returned or raised
AwaitsPrevious(l) == ~l.inflight

\* line 1082 reads headers_direct_post, bound only by the medical-history branch
CanIssue(at, l) == at = "mh_flags" => l.headers_bound

WriteEndpoints == {"update appointment", "post appointment"}

\* the session closed in the except clause instead of the finally clause
FinallyCloses_OnlyOnError(f, close_session_arg, out) ==
    IF f \in ParamFlows THEN close_session_arg ELSE out.k = "raise"

\* the finally clause: close_session(), for the lookups only "if close_session"
FinallyCloses(f, close_session_arg, out) ==
    IF f \in ParamFlows THEN close_session_arg ELSE TRUE

-----------------------------------------------------------------------------
(* Steps *)

\* an instance is built: ECWIntegration.create(auth_tokens, network_requester)
Create ==
    /\ pc = "idle"
    /\ closed' = FALSE
    /\ network_requester' \in BOOLEAN
    /\ flow' = "none"
    /\ pc' = "idle"
    /\ req' = NoReq
    /\ loc' = NoLoc
    /\ sent' = << >>
    /\ outcome' = NoOutcome
    /\ completed' = FALSE
    /\ auth_tokens' \in Tokens
    /\ UNCHANGED <<hr, mg, vd, ov>>

\* one of the given public methods is called with one of its given arguments
InvokeOf(arguments) ==
    /\ pc = "idle"
    /\ \E f \in DOMAIN arguments : \E r \in arguments[f] :
          /\ flow' = f
          /\ req' = r
          /\ pc' = EntryPoint(f, r)
    /\ loc' = [NoLoc EXCEPT !.closed_at_invoke = closed]
    /\ sent' = << >>
    /\ outcome' = NoOutcome
    /\ UNCHANGED <<closed, network_requester, completed, hr, mg, vd, ov, auth_tokens>>

\* a public method is called
Invoke == InvokeOf([f \in PublicFlows |-> RequestsOf(f)])

\* _make_request is entered: the request goes out (or is refused on a closed session)
SendRequest ==
    /\ pc \in RequestLabels
    /\ AwaitsPrevious(loc)
    /\ CanIssue(pc, loc)
    /\ LET h == setup_headers(auth_tokens) IN
          /\ sent' = Append(sent, [RequestAt(pc, req, loc, closed /\ ~network_requester)
                                      EXCEPT !.headers = h.headers])
          /\ auth_tokens' = h.tokens
    /\ loc' = [loc EXCEPT !.inflight = TRUE]
    /\ UNCHANGED <<closed, network_requester, flow, pc, req, outcome, completed, hr, mg, vd,
                   ov>>

\* the results the request in flight can have
Results == make_request(sent[Len(sent)].onClosed, network_requester, sent[Len(sent)].ep)

\* the flow ends: except / finally, then the caller has the outcome
Finish(out, closes) ==
    /\ outcome' = out
    /\ pc' = "idle"
    /\ closed' = (closed \/ closes \/ FinallyCloses(flow, req.close_session, out))
    /\ completed' = TRUE
    /\ UNCHANGED <<network_requester, flow, req, sent, hr, mg, vd, ov, auth_tokens>>

\* a failed request issued once more before the failure is passed on
FinishWith_RetryOnce(r, l) ==
    IF r.k = "raise"
       /\ ~(Len(sent) >= 2 /\ sent[Len(sent) - 1].ep = sent[Len(sent)].ep)
    THEN /\ loc' = [l EXCEPT !.inflight = FALSE]
         /\ closed' = (closed \/ r.closes)
         /\ UNCHANGED <<network_requester, flow, pc, req, sent, outcome, completed, hr, mg,
                        vd, ov, auth_tokens>>
    ELSE /\ Finish(IF r.k = "raise" THEN Raised(r.e) ELSE Returned(r.v, << >>), r.closes)
         /\ loc' = [l EXCEPT !.inflight = FALSE]

\* the request's result is the flow's result: "return await self._make_request(...)",
\* or the exception passes through "except Exception: raise"
FinishWith(r, l) ==
    /\ Finish(IF r.k = "raise" THEN Raised(r.e) ELSE Returned(r.v, << >>), r.closes)
    /\ loc' = [l EXCEPT !.inflight = FALSE]

\* the flow goes on to its next request
Continue(next, l, closes) ==
    /\ pc' = next
    /\ loc' = [l EXCEPT !.inflight = FALSE]
    /\ closed' = (closed \/ closes)
    /\ UNCHANGED <<network_requester, flow, req, sent, outcome, completed, hr, mg, vd, ov,
                   auth_tokens>>

Awaiting(at) == pc = at /\ loc.inflight

SimpleFlow(f) ==
    /\ Awaiting(f)
    /\ \E r \in Results : FinishWith(r, loc)

get_facilities == SimpleFlow("get_facilities")
get_providers == SimpleFlow("get_providers")
get_provider == SimpleFlow("get_provider")
get_reasons == SimpleFlow("get_reasons")
get_patients == SimpleFlow("get_patients")
get_appointments == SimpleFlow("get_appointments")
get_progress_notes == SimpleFlow("get_progress_notes")
search_allergies == SimpleFlow("search_allergies")
add_social_history_note == SimpleFlow("add_social_history_note")

add_family_history_note ==
    /\ Awaiting("add_family_history_note")
    /\ \E r \in Results :
          IF r.k = "raise" THEN FinishWith(r, loc)
          ELSE /\ Finish(IF r.v.t = "text" /\ Strip(r.v.body.text) = << >>
                         THEN Returned(FamilySaved, << >>)
                         ELSE Returned(FamilyUnknown, <<r.v>>),
                         r.closes)
               /\ loc' = [loc EXCEPT !.inflight = FALSE]

-----------------------------------------------------------------------------
(* create_appointment *)

\* what follows a lookup: the validator raised, found nothing, or found its entity
AfterLookup(entity, res, field, next, closes) ==
    IF res.kind = "raise"
    THEN /\ Finish(Raised(PlainExc(res.exc)), closes)
         /\ loc' = [loc EXCEPT !.inflight = FALSE]
    ELSE IF AbortsNotFound(entity, res)
    THEN /\ Finish(Raised(NotFoundError(entity)), closes)
         /\ loc' = [loc EXCEPT !.inflight = FALSE, !.not_found = entity]
    ELSE Continue(next,
                  [loc EXCEPT ![field] = res.val,
                              !.not_found = IF res.kind = "none" THEN entity ELSE @],
                  closes)

\* the patient search, then the form URL is built (datetime.strptime of the date)
ca_patients ==
    /\ Awaiting("ca_patients")
    /\ \E r \in Results :
          IF r.k = "raise" THEN FinishWith(r, loc)
          ELSE IF resolve_patient(r.v).kind = "found" /\ ~req.date_valid
          THEN /\ Finish(Raised(PlainExc("ValueError")), r.closes)
               /\ loc' = [loc EXCEPT !.inflight = FALSE]
          ELSE AfterLookup("Patient", resolve_patient(r.v), "patient_id", StepAfter("ca_patients"),
                           r.closes)

\* the prime-the-form GET; its response is discarded
ca_form ==
    /\ Awaiting("ca_form")
    /\ \E r \in Results :
          IF r.k = "raise" THEN FinishWith(r, loc)
          ELSE Continue(StepAfter("ca_form"), loc, r.closes)

ca_facilities ==
    /\ Awaiting("ca_facilities")
    /\ \E r \in Results :
          IF r.k = "raise" THEN FinishWith(r, loc)
          ELSE AfterLookup("Facility", validate_facilities(r.v, TargetName),
                           "facility_id", StepAfter("ca_facilities"), r.closes)

ca_provider ==
    /\ Awaiting("ca_provider")
    /\ \E r \in Results :
          IF r.k = "raise" THEN FinishWith(r, loc)
          ELSE AfterLookup("Provider", validate_provider(r.v, TargetName),
                           "provider_id", StepAfter("ca_provider"), r.closes)

ca_resource ==
    /\ Awaiting("ca_resource")
    /\ \E r \in Results :
          IF r.k = "raise" THEN FinishWith(r, loc)
          ELSE AfterLookup("Resource",
                           validate_provider(r.v, IF req.resource # "" THEN req.resource
                                                  ELSE TargetName),
                           "resource_id", StepAfter("ca_resource"), r.closes)

\* the reason lookup, then the local visit-type check
ca_reasons ==
    /\ Awaiting("ca_reasons")
    /\ \E r \in Results :
          IF r.k = "raise" THEN FinishWith(r, loc)
          ELSE LET rn == validate_reason(r.v, TargetName)
                   vt == validate_visit_type(req.visit_type)
               IN IF rn.kind = "raise" \/ AbortsNotFound("Reason", rn)
                  THEN AfterLookup("Reason", rn, "reason_name", StepAfter("ca_reasons"),
                                  r.closes)
                  ELSE IF AbortsNotFound("Visit Type", vt)
                  THEN /\ Finish(Raised(NotFoundError("Visit Type")), r.closes)
                       /\ loc' = [loc EXCEPT !.inflight = FALSE,
                                             !.reason_name = rn.val,
                                             !.not_found = "Visit Type"]
                  ELSE Continue(StepAfter("ca_reasons"),
                                [loc EXCEPT !.reason_name = rn.val,
                                            !.visit_type = vt.val,
                                            !.not_found =
                                                IF rn.kind = "none" THEN "Reason"
                                                ELSE IF vt.kind = "none" THEN "Visit Type"
                                                ELSE @],
                                r.closes)

ca_post ==
    /\ Awaiting("ca_post")
    /\ \E r \in Results : FinishWith(r, loc)

-----------------------------------------------------------------------------
(* update_history_add_only *)

\* how a fetch of existing history went: "ok", or the exception it raised, or the
\* unusable value it returned
FetchKind(r) ==
    IF r.k = "raise" THEN r.e.type
    ELSE IF r.v.t = "parseerror" THEN "undecodable"
    ELSE IF ~IsDict(r.v) THEN "shape"
    ELSE "ok"

\* the change flag queued ahead of the data it announces
SectionEntries_FlagFirst(set_url, section, ts, items) ==
    << BatchItem("set_encounter_details", section, ts + 2, << >>, TRUE),
       BatchItem(set_url, section, ts + 1, items, FALSE) >>

\* both entries of a section stamped with the same offset
SectionEntries_SameStamp(set_url, section, ts, items) ==
    << BatchItem(set_url, section, ts + 1, items, FALSE),
       BatchItem("set_encounter_details", section, ts + 1, << >>, TRUE) >>

\* the two entries a section appends to batch_items_to_send: its data-set entry,
\* then its change-flag entry
SectionEntries(set_url, section, ts, items) ==
    << BatchItem(set_url, section, ts + 1, items, FALSE),
       BatchItem("set_encounter_details", section, ts + 2, << >>, TRUE) >>

\* the fetch of one section, its merge, and its two envelope entries
Section(at, set_url, section, n_new, ts, next) ==
    /\ Awaiting(at)
    /\ \E r \in Results :
          LET m == merge_history(existing_items(r), n_new) IN
          IF ~m.ok
          THEN /\ Finish(Raised(PlainExc("ValueError")), r.closes)
               /\ loc' = [loc EXCEPT !.inflight = FALSE,
                                     !.fetches = Append(@, FetchKind(r))]
          ELSE Continue(next,
                        [loc EXCEPT
                           !.batch = @ \o SectionEntries(set_url, section, ts, m.items),
                           !.fetches = Append(@, FetchKind(r))],
                        r.closes)

uh_surg ==
    Section("uh_surg", "set_surgical_history", "Surgical History", req.n_surg, 0,
            IF SectionChanged(req.n_hosp) THEN "uh_hosp" ELSE "uh_post")

uh_hosp ==
    Section("uh_hosp", "set_hospitalization_history", "Hospitalization", req.n_hosp, 3,
            "uh_post")

\* "if not batch_items_to_send: return ..."
uh_done ==
    /\ pc = "uh_done"
    /\ Finish(Returned(Ack, << >>), FALSE)
    /\ loc' = loc

uh_post ==
    /\ Awaiting("uh_post")
    /\ \E r \in Results : FinishWith(r, loc)

-----------------------------------------------------------------------------
(* update_med_hx_and_allergies *)

Response(key, item, v) == [key |-> key, item |-> item, v |-> v]

mh_medhx ==
    /\ Awaiting("mh_medhx")
    /\ \E r \in Results :
          IF r.k = "raise" THEN FinishWith(r, loc)
          ELSE Continue("mh_flags",
                        [loc EXCEPT !.headers_bound = TRUE,
                                    !.responses =
                                        Append(@, Response("medical_history_set", 0, r.v))],
                        r.closes)

\* headers_direct_post is read before it was ever assigned
mh_unbound ==
    /\ pc = "mh_flags"
    /\ ~CanIssue(pc, loc)
    /\ Finish(Raised(PlainExc("UnboundLocalError")), FALSE)
    /\ loc' = loc

mh_flags ==
    /\ Awaiting("mh_flags")
    /\ \E r \in Results :
          IF r.k = "raise" THEN FinishWith(r, loc)
          ELSE LET l == [loc EXCEPT !.responses =
                                        Append(@, Response("flags_batch_set", 0, r.v))]
               IN IF req.n_allergy > 0 THEN Continue("mh_allergy", l, r.closes)
                  ELSE /\ Finish(Returned(Responses, l.responses), r.closes)
                       /\ loc' = [l EXCEPT !.inflight = FALSE]

mh_allergy ==
    /\ Awaiting("mh_allergy")
    /\ \E r \in Results :
          IF r.k = "raise" THEN FinishWith(r, loc)
          ELSE LET l == [loc EXCEPT !.i = @ + 1,
                                    !.responses =
                                        Append(@, Response("set_allergies", loc.i + 1, r.v))]
               IN IF l.i < req.n_allergy THEN Continue("mh_allergy", l, r.closes)
                  ELSE /\ Finish(Returned(Responses, l.responses), r.closes)
                       /\ loc' = [l EXCEPT !.inflight = FALSE]

-----------------------------------------------------------------------------
(* Spec: public flows invoked one after the other on an instance *)

Init ==
    /\ closed = FALSE
    /\ network_requester = FALSE
    /\ flow = "none"
    /\ pc = "idle"
    /\ req = NoReq
    /\ loc = NoLoc
    /\ sent = << >>
    /\ outcome = NoOutcome
    /\ completed = FALSE
    /\ hr = HRIdle
    /\ mg = MGIdle
    /\ vd = VDIdle
    /\ ov = OVIdle
    /\ auth_tokens \in Tokens

Next ==
    \/ Create
    \/ Invoke
    \/ SendRequest
    \/ get_facilities
    \/ get_providers
    \/ get_provider
    \/ get_reasons
    \/ get_patients
    \/ get_appointments
    \/ get_progress_notes
    \/ search_allergies
    \/ add_social_history_note
    \/ add_family_history_note
    \/ ca_patients
    \/ ca_form
    \/ ca_facilities
    \/ ca_provider
    \/ ca_resource
    \/ ca_reasons
    \/ ca_post
    \/ uh_surg
    \/ uh_hosp
    \/ uh_done
    \/ uh_post
    \/ mh_medhx
    \/ mh_unbound
    \/ mh_flags
    \/ mh_allergy

Spec == Init /\ [][Next]_vars

-----------------------------------------------------------------------------
(* SpecHR: one call of _handle_response on an open session *)

InitHR ==
    /\ closed = FALSE
    /\ network_requester = FALSE
    /\ flow = "none"
    /\ pc = "idle"
    /\ req = NoReq
    /\ loc = NoLoc
    /\ sent = << >>
    /\ outcome = NoOutcome
    /\ completed = FALSE
    /\ hr \in { [HRIdle EXCEPT !.status = st, !.body = b] : st \in HRStatuses, b \in HRBodies }
    /\ mg = MGIdle
    /\ vd = VDIdle
    /\ ov = OVIdle
    /\ auth_tokens = AuthTokens("1")

HandleResponseCall ==
    /\ ~hr.called
    /\ LET out == handle_response(hr.status, hr.body) IN
          /\ hr' = [hr EXCEPT !.out = out, !.called = TRUE,
                              !.decoder = ParseBody(hr.body).decoder,
                              !.parsed = ParseBody(hr.body).value]
          /\ closed' = (closed \/ out.closes)
    /\ UNCHANGED <<network_requester, flow, pc, req, loc, sent, outcome, completed, mg, vd,
                   ov, auth_tokens>>

NextHR == HandleResponseCall

SpecHR == InitHR /\ [][NextHR]_vars

-----------------------------------------------------------------------------
(* SpecMerge: one history merge *)

MergeIndexValues == {"", "0", "1", "2", "3", "x"}

InitMerge ==
    /\ closed = FALSE
    /\ network_requester = FALSE
    /\ flow = "none"
    /\ pc = "idle"
    /\ req = NoReq
    /\ loc = NoLoc
    /\ sent = << >>
    /\ outcome = NoOutcome
    /\ completed = FALSE
    /\ hr = HRIdle
    /\ mg \in { [MGIdle EXCEPT !.existing = ex, !.n_new = n] :
                  ex \in SeqsUpTo(MergeIndexValues, MaxMerge), n \in 1..MaxMerge }
    /\ vd = VDIdle
    /\ ov = OVIdle
    /\ auth_tokens = AuthTokens("1")

MergeCall ==
    /\ ~mg.called
    /\ LET m == merge_history(mg.existing, mg.n_new) IN
          mg' = [mg EXCEPT !.out = m.items, !.ok = m.ok, !.called = TRUE]
    /\ UNCHANGED <<flowVars, hr, vd, ov, auth_tokens>>

NextMerge == MergeCall

SpecMerge == InitMerge /\ [][NextMerge]_vars

-----------------------------------------------------------------------------
(* SpecValidate: one validator called directly on a fresh instance *)

NetworkValidators == {"validate_facilities", "validate_provider", "validate_reason"}

\* the names a lookup may list: "a" and "A" both match a request for "A"
ScanNames == {"a", "A", "b"}

\* the lookup a validator runs, with close_session=False
LookupOf_Validator(validator) ==
    CASE validator = "validate_facilities" -> "get facilities"
      [] validator = "validate_provider" -> "get provider"
      [] validator = "validate_reason" -> "get resons"

\* what the lookup of a validator can give it
LookupResults ==
    { handle_response(st, b) : st \in {200, 404}, b \in BodiesOver(SeqsUpTo(ScanNames, MaxScan)) }
    \cup { Raise(PlainExc("ClientError"), FALSE) }

\* the scan of a validator over the value its lookup returned
Scan(validator, v, name) ==
    CASE validator = "validate_facilities" -> validate_facilities(v, name)
      [] validator = "validate_provider" -> validate_provider(v, name)
      [] validator = "validate_reason" -> validate_reason(v, name)

InitValidate ==
    /\ closed = FALSE
    /\ network_requester = FALSE
    /\ flow = "none"
    /\ pc = "idle"
    /\ req = NoReq
    /\ loc = NoLoc
    /\ sent = << >>
    /\ outcome = NoOutcome
    /\ completed = FALSE
    /\ hr = HRIdle
    /\ mg = MGIdle
    /\ vd \in { [VDIdle EXCEPT !.validator = f, !.name = n, !.resp = r] :
                  f \in NetworkValidators, n \in {"A", "b"}, r \in LookupResults }
          \cup { [VDIdle EXCEPT !.validator = "validate_visit_type", !.name = n] :
                   n \in {"office visit", "Office Visit", "zz"} }
    /\ ov = OVIdle
    /\ auth_tokens = AuthTokens("1")

\* validate_facilities / validate_provider / validate_reason: the lookup through
\* _make_request, no finally clause of their own, then the scan
ValidateNetwork ==
    /\ ~vd.called
    /\ vd.validator \in NetworkValidators
    /\ vd' = [vd EXCEPT !.called = TRUE,
                        !.requests = << LookupOf_Validator(vd.validator) >>,
                        !.out = IF vd.resp.k = "raise" THEN Raises(vd.resp.e.type)
                                ELSE Scan(vd.validator, vd.resp.v, vd.name)]
    /\ closed' = (closed \/ vd.resp.closes
                         \/ FinallyCloses("get_facilities", FALSE, vd.resp))
    /\ UNCHANGED <<network_requester, flow, pc, req, loc, sent, outcome, completed, hr, mg,
                   ov, auth_tokens>>

\* validate_visit_type: the scan of the static table
ValidateLocal ==
    /\ ~vd.called
    /\ vd.validator = "validate_visit_type"
    /\ vd' = [vd EXCEPT !.called = TRUE, !.out = validate_visit_type(vd.name)]
    /\ UNCHANGED <<flowVars, hr, mg, ov, auth_tokens>>

NextValidate == ValidateNetwork \/ ValidateLocal

SpecValidate == InitValidate /\ [][NextValidate]_vars

-----------------------------------------------------------------------------
(* Two invocations overlapping on one instance, default transport *)

\* the flows the second invocation runs: a lookup, which may leave the session
\* open, and a one-request flow that always closes it
OverlapFlows == {"get_facilities", "get_progress_notes"}

InitOverlap ==
    /\ closed = FALSE
    /\ network_requester = FALSE
    /\ flow = "none"
    /\ pc = "idle"
    /\ req = NoReq
    /\ loc = NoLoc
    /\ sent = << >>
    /\ outcome = NoOutcome
    /\ completed = FALSE
    /\ hr = HRIdle
    /\ mg = MGIdle
    /\ vd = VDIdle
    /\ ov = OVIdle
    /\ auth_tokens = AuthTokens("1")

\* the second public method is called while the instance may be in use: nothing
\* in the class makes it wait
OverlapInvoke ==
    /\ ov.pc = "idle"
    /\ \E f \in OverlapFlows : \E r \in RequestsOf(f) :
          ov' = [ov EXCEPT !.flow = f, !.close_session = r.close_session, !.pc = "ready"]
    /\ UNCHANGED <<flowVars, hr, mg, vd, auth_tokens>>

\* its request enters _make_request on the session as it is at that moment
OverlapSend ==
    /\ ov.pc = "ready"
    /\ ov' = [ov EXCEPT !.pc = "inflight", !.onClosed = closed /\ ~network_requester]
    /\ UNCHANGED <<flowVars, hr, mg, vd, auth_tokens>>

\* its request ends and its finally clause runs
OverlapReturn ==
    /\ ov.pc = "inflight"
    /\ \E r \in make_request(ov.onClosed, network_requester,
                              RequestAt(ov.flow, NoReq, NoLoc, ov.onClosed).ep) :
          LET closes == r.closes \/ FinallyCloses(ov.flow, ov.close_session, r) IN
          /\ ov' = [ov EXCEPT !.pc = "done", !.k = r.k,
                               !.exc = IF r.k = "raise" THEN r.e.type ELSE "none",
                               !.closes = closes, !.closedOpen = closes /\ ~closed]
          /\ closed' = (closed \/ closes)
    /\ UNCHANGED <<network_requester, flow, pc, req, loc, sent, outcome, completed, hr, mg,
                   vd, auth_tokens>>

\* the flow the first invocation runs: the one of seven requests that shares the
\* session among its lookups and closes it at its end
OverlapMainFlows == {"create_appointment"}

\* its arguments: a well-formed date, a known visit type, no resource named
OverlapRequestsOf(f) ==
    { r \in RequestsOf(f) :
        r.date_valid /\ r.visit_type = "office visit" /\ r.resource = "" }

OverlapMainInvoke == InvokeOf([f \in OverlapMainFlows |-> OverlapRequestsOf(f)])

NextOverlap ==
    \/ OverlapMainInvoke
    \/ SendRequest
    \/ ca_patients
    \/ ca_form
    \/ ca_facilities
    \/ ca_provider
    \/ ca_resource
    \/ ca_reasons
    \/ ca_post
    \/ OverlapInvoke
    \/ OverlapSend
    \/ OverlapReturn

SpecOverlap == InitOverlap /\ [][NextOverlap]_vars

-----------------------------------------------------------------------------
(* Properties *)

Done == pc = "idle" /\ completed

WriteIssued == \E i \in 1..Len(sent) : sent[i].ep \in WriteEndpoints

\* C1: when a public flow has returned or raised (success, validation not-found,
\* HTTP error status, transport exception), the client session is closed; for the
\* lookups this is for the default close_session=True.
C1_SessionClosedOnExit ==
    (Done /\ flow \in PublicFlows /\ req.close_session) => closed

\* a flow on a fresh session ended on the validation not-found path, session closed
C1_Witness ==
    /\ Done
    /\ flow = "create_appointment"
    /\ ~loc.closed_at_invoke
    /\ loc.not_found = "Facility"
    /\ outcome.k = "raise"
    /\ closed

\* C2: in create_appointment, once a lookup (patient, facility, provider, resource,
\* reason, visit type) has found no match, no request to the create-appointment or
\* update-appointment endpoint is issued in that invocation.
C2_NoWriteAfterNotFound ==
    (flow = "create_appointment" /\ loc.not_found # "") => ~WriteIssued

\* every lookup request was answered, the visit type was unknown, the flow aborted
C2_Witness ==
    /\ Done
    /\ flow = "create_appointment"
    /\ loc.not_found = "Visit Type"
    /\ Len(sent) = 6
    /\ outcome = Raised(NotFoundError("Visit Type"))
    /\ ~WriteIssued

\* C8: update_history_add_only called with no new surgical and no new
\* hospitalization items returns {"message": "No new history items to add."} and
\* issues no request at all.
C8_NoItemsNoRequest ==
    (flow = "update_history_add_only" /\ req.n_surg = 0 /\ req.n_hosp = 0)
        => /\ sent = << >>
           /\ Done => outcome = Returned(Ack, << >>)

C8_Witness ==
    /\ Done
    /\ flow = "update_history_add_only"
    /\ req.n_surg = 0
    /\ req.n_hosp = 0
    /\ outcome = Returned(Ack, << >>)
    /\ sent = << >>

\* C3: a response with status >= 500 handled by _handle_response, whatever its body,
\* surfaces an error whose status is the translated value 501; it is never returned
\* as a success payload.
C3_ServerErrorTranslated ==
    (hr.called /\ hr.status >= 500)
        => /\ hr.out.k = "raise"
           /\ hr.out.e.type = "IntegrationAPIError"
           /\ hr.out.e.status = TranslatedStatus

\* C4: a response with status in 400..499 handled by _handle_response, whatever its
\* body and whatever the decoder produced, raises a client error with the original
\* status and the parsed payload.
C4_ClientErrorKeepsStatus ==
    (hr.called /\ 400 <= hr.status /\ hr.status <= 499)
        => /\ hr.out.k = "raise"
           /\ hr.out.e.type = "HTTPException"
           /\ hr.out.e.status = hr.status
           /\ hr.out.e.detail = ParseBody(hr.body).value

\* the body of hr fails to decode under the decoder selected for it
HRDecodeFails ==
    /\ SelectDecoder(hr.body.text) # "none"
    /\ DecoderRaises(SelectDecoder(hr.body.text), hr.body.content)

\* C5: for a 2xx response whose body fails to decode under the selected decoder,
\* _handle_response raises nothing and returns the parse-error value (message
\* "Parsing error").
C5_DecodeFailureDegrades ==
    (hr.called /\ 200 <= hr.status /\ hr.status <= 299 /\ HRDecodeFails)
        => /\ hr.out.k = "ret"
           /\ hr.out.v.t = "parseerror"
           /\ ErrorMessage(hr.out.v) = "Parsing error"

C5_Witness ==
    /\ hr.called
    /\ hr.status = 204
    /\ hr.body.text = <<" ", "{">>
    /\ hr.body.content.shape = "garbage"
    /\ hr.out.k = "ret"
    /\ hr.out.v.t = "parseerror"

\* no request of the invocation met a transport failure
TransportDelivered ==
    /\ outcome.e.type # "ClientError"
    /\ \A i \in 1..Len(loc.fetches) : loc.fetches[i] # "ClientError"

\* C6: a public flow invoked on a fresh instance in default transport mode, with an
\* HTTP response delivered to each of its requests, ends in a returned payload or in
\* a raised structured error (HTTP client / not-found error, integration API error);
\* no other kind of failure reaches the caller.
C6_OnlyStructuredErrors ==
    (Done /\ flow \in PublicFlows /\ ~network_requester /\ ~loc.closed_at_invoke
          /\ TransportDelivered)
        => \/ outcome.k = "ret"
           \/ outcome.e.type \in {"HTTPException", "IntegrationAPIError"}

\* C7: in default transport mode, a public flow invoked on an instance whose session
\* an earlier flow has closed fails; it never returns a success result.
C7_ReuseFails ==
    (Done /\ flow \in PublicFlows /\ ~network_requester /\ loc.closed_at_invoke)
        => outcome.k = "raise"

\* C9: in update_history_add_only, when the fetch of a section's existing history
\* fails, the flow goes on with an empty existing list, queues the section's entries
\* and submits the batch envelope, ending with the batch call's result.
C9_FetchFailureTolerated ==
    (Done /\ flow = "update_history_add_only" /\ ~network_requester
          /\ ~loc.closed_at_invoke
          /\ \E i \in 1..Len(loc.fetches) : loc.fetches[i] # "ok")
        => /\ Len(sent) > 0
           /\ sent[Len(sent)].ep = "batch_ajax"
           /\ ~sent[Len(sent)].onClosed
           /\ Len(sent[Len(sent)].batch) = 2 * Len(loc.fetches)

\* the largest displayIndex among the existing items, 0 when there is none
MaxExistingIndex(existing) ==
    LET S == { StrToInt(existing[i]) : i \in { j \in 1..Len(existing) : existing[j] # "" } }
    IN IF S = { } THEN 0 ELSE CHOOSE n \in S : \A m \in S : m <= n

\* C10: a completed history merge lists the existing items first, in fetched order
\* and with their displayIndex untouched, then the new items, the k-th with
\* displayIndex max(existing indices, 0) + k.
C10_MergeAppends ==
    (mg.called /\ mg.ok)
        => /\ Len(mg.out) = Len(mg.existing) + mg.n_new
           /\ \A i \in 1..Len(mg.existing) :
                 mg.out[i] = Entry("existing", mg.existing[i], i)
           /\ \A k \in 1..mg.n_new :
                 mg.out[Len(mg.existing) + k]
                     = Entry("new", IntToStr(MaxExistingIndex(mg.existing) + k), k)

C10_Witness ==
    /\ mg.called
    /\ mg.ok
    /\ mg.existing = <<"3", "1">>
    /\ mg.n_new = 2
    /\ mg.out[3].displayIndex = "4"
    /\ mg.out[4].displayIndex = "5"

\* positions in the request log of the requests to an endpoint
RequestsTo(ep) == { i \in 1..Len(sent) : sent[i].ep = ep }

\* C11: every invocation of update_med_hx_and_allergies whose earlier request (the
\* medical-history POST, when there is one) returned submits exactly one batch
\* request, holding the Medical History flag entry followed by the Allergies flag
\* entry, whether or not medical_history_text is supplied.
C11_FlagBatchAlwaysSubmitted ==
    (Done /\ flow = "update_med_hx_and_allergies" /\ ~loc.closed_at_invoke
          /\ (req.med_text = "none" \/ Len(loc.responses) >= 1))
        => /\ Cardinality(RequestsTo("batch_ajax")) = 1
           /\ \A i \in RequestsTo("batch_ajax") : sent[i].batch = FlagBatch

\* the endpoints of create_appointment's lookups, in statement order
CreateSteps ==
    << "get patients", "get appointment", "get facilities", "get provider",
       "get provider", "get resons" >>

\* the position of a step of create_appointment in that order
StepOf(at) ==
    CASE at = "ca_patients" -> 1 [] at = "ca_form" -> 2 [] at = "ca_facilities" -> 3
      [] at = "ca_provider" -> 4 [] at = "ca_resource" -> 5 [] at = "ca_reasons" -> 6
      [] at = "ca_post" -> 7

\* the lookup after which an entity is found missing
LookupOf(entity) ==
    CASE entity = "Patient" -> 1 [] entity = "Facility" -> 3 [] entity = "Provider" -> 4
      [] entity = "Resource" -> 5 [] entity \in {"Reason", "Visit Type"} -> 6

\* C12: create_appointment issues its requests in the order patient search, form
\* GET, facility lookup, provider lookup, resource lookup, reason lookup, write
\* POST; a request is issued only when every earlier one has returned, and after
\* the step that finds no match the flow has ended with no later request issued.
C12_CreateOrder ==
    flow = "create_appointment" =>
        /\ Len(sent) <= 7
        /\ \A i \in 1..Len(sent) :
              IF i <= 6 THEN sent[i].ep = CreateSteps[i] ELSE sent[i].ep \in WriteEndpoints
        /\ pc # "idle" =>
              /\ outcome = NoOutcome
              /\ Len(sent) = StepOf(pc) - (IF loc.inflight THEN 0 ELSE 1)
        /\ loc.not_found # "" =>
              /\ Done
              /\ outcome = Raised(NotFoundError(loc.not_found))
              /\ Len(sent) = LookupOf(loc.not_found)
        /\ (Done /\ outcome.k = "ret") => Len(sent) = 7

C12_Witness ==
    /\ Done /\ flow = "create_appointment" /\ ~network_requester
    /\ outcome.k = "ret" /\ Len(sent) = 7 /\ ~req.encounterId

\* an envelope entry without its payload and timestamp
Slot(url, section) == [url |-> url, section |-> section]

SlotsOf(batch) == [ i \in 1..Len(batch) |-> Slot(batch[i].url, batch[i].section) ]

\* the envelope update_history_add_only is to submit for a request
ExpectedSlots(r) ==
    (IF r.n_surg > 0
     THEN << Slot("set_surgical_history", "Surgical History"),
             Slot("set_encounter_details", "Surgical History") >>
     ELSE << >>)
    \o
    (IF r.n_hosp > 0
     THEN << Slot("set_hospitalization_history", "Hospitalization"),
             Slot("set_encounter_details", "Hospitalization") >>
     ELSE << >>)

IsPrefix(a, b) == Len(a) <= Len(b) /\ \A i \in 1..Len(a) : a[i] = b[i]

\* C13: the envelope of update_history_add_only holds exactly the entries of the
\* sections that have new items, in the order surgical data-set, surgical flag,
\* hospitalization data-set, hospitalization flag; once it is complete it goes out
\* as one outer POST that carries it whole and in that order, and no other outer
\* POST is issued by the flow.
C13_EnvelopeOrder ==
    flow = "update_history_add_only" =>
        /\ IsPrefix(SlotsOf(loc.batch), ExpectedSlots(req))
        /\ Len(loc.batch) \in {0, 2, 4}
        /\ \A i \in RequestsTo("batch_ajax") :
              /\ i = Len(sent)
              /\ sent[i].method = "POST"
              /\ sent[i].batch = loc.batch
              /\ SlotsOf(sent[i].batch) = ExpectedSlots(req)
              /\ sent[i].batch # << >>
        /\ Cardinality(RequestsTo("batch_ajax")) <= 1
        /\ (pc \in {"uh_post", "uh_done"} \/ (Done /\ outcome.k = "ret")) =>
              SlotsOf(loc.batch) = ExpectedSlots(req)
        /\ (Done /\ loc.batch # << >> /\ SlotsOf(loc.batch) = ExpectedSlots(req)) =>
              Cardinality(RequestsTo("batch_ajax")) = 1

C13_Witness ==
    /\ Done /\ flow = "update_history_add_only" /\ ~network_requester
    /\ req.n_surg > 0 /\ req.n_hosp > 0
    /\ outcome.k = "ret"
    /\ Len(sent) = 3 /\ Len(sent[3].batch) = 4 /\ ~sent[3].onClosed

\* the endpoints update_med_hx_and_allergies is to call for a request, in order
ExpectedMedHx(r) ==
    (IF r.med_text # "none" THEN << "set_encounter_details_medical_history" >> ELSE << >>)
    \o << "batch_ajax" >>
    \o [ i \in 1..r.n_allergy |-> "set_allergies_for_encounter" ]

EndpointsSent == [ i \in 1..Len(sent) |-> sent[i].ep ]

FirstOfTrimmed ==
    LET t == Strip(hr.body.text) IN IF t = << >> THEN "" ELSE t[1]

\* C15: _handle_response picks its decoder from the trimmed body: XML for a body
\* starting with "<?xml" or "<root", otherwise the HTML note decoder for "<HTML>",
\* otherwise JSON for "{", otherwise none, and then the text is handed back as it
\* is; what the call yields is what that one decoder does with the body.
C15_DecoderPriority ==
    hr.called =>
        /\ FirstOfTrimmed \in {"<?xml", "<root"} <=> hr.decoder = "xml"
        /\ FirstOfTrimmed = "<HTML>" <=> hr.decoder = "html"
        /\ FirstOfTrimmed = "{" <=> hr.decoder = "json"
        /\ FirstOfTrimmed \notin {"<?xml", "<root", "<HTML>", "{"} <=> hr.decoder = "none"
        /\ hr.decoder = "none" => hr.out = Ret(Value("text", hr.body), FALSE)
        /\ hr.decoder # "none" =>
              (hr.parsed.t = "parseerror" <=> DecoderRaises(hr.decoder, hr.body.content))

C15_Witness ==
    /\ hr.called
    /\ hr.body.text = <<" ", "<?xml", " ">>
    /\ hr.decoder = "xml"
    /\ hr.parsed.t = "parsed"

\* C16: when the selected decoder fails, the parse-error value carries the
\* response text as received, untrimmed, and that value is what a 2xx call
\* returns and what a 4xx call puts in its exception.
C16_RawIsOriginalText ==
    (hr.called /\ HRDecodeFails) =>
        /\ hr.parsed = Value("parseerror", hr.body)
        /\ hr.parsed.body.text = hr.body.text
        /\ (200 <= hr.status /\ hr.status < 300) => hr.out.v = hr.parsed
        /\ (400 <= hr.status /\ hr.status < 500) => hr.out.e.detail = hr.parsed

C16_Witness ==
    /\ hr.called /\ HRDecodeFails
    /\ hr.status = 200
    /\ hr.body.text = <<" ", "<?xml", " ">>
    /\ hr.out.k = "ret"
    /\ hr.out.v.body.text = <<" ", "<?xml", " ">>

\* C20: whenever _handle_response raises for a non-2xx response, close_session
\* has run before the exception leaves it.
C20_ClosedBeforeRaise ==
    (hr.called /\ hr.out.k = "raise") => closed

\* positions in the request log of the write POSTs of create_appointment
Writes == { i \in 1..Len(sent) : sent[i].ep \in WriteEndpoints }

\* C17: the write POST of create_appointment goes to the update-appointment
\* endpoint when the request carries an encounter identifier and to the
\* create-new endpoint otherwise; no invocation issues more than one write POST,
\* and a successful one issues exactly one.
C17_WriteEndpointByEncounter ==
    flow = "create_appointment" =>
        /\ \A i \in Writes :
              /\ sent[i].method = "POST"
              /\ req.encounterId => sent[i].ep = "update appointment"
              /\ ~req.encounterId => sent[i].ep = "post appointment"
        /\ Cardinality(Writes) <= 1
        /\ (Done /\ outcome.k = "ret") => Cardinality(Writes) = 1

C17_Witness ==
    /\ Done /\ flow = "create_appointment" /\ ~network_requester
    /\ req.encounterId
    /\ outcome.k = "ret"
    /\ sent[Len(sent)].ep = "update appointment" /\ ~sent[Len(sent)].onClosed

\* C18: with a network_requester configured, what _make_request gives a flow is
\* what the requester handed back or raised: _handle_response does not run (no
\* parse-error value, no status turned into an error, no session closed while the
\* flow runs) and nothing goes out on, or is refused by, the own client session.
C18_RequesterBypassesHandling ==
    (network_requester /\ flow \in PublicFlows) =>
        /\ \A i \in 1..Len(sent) : ~sent[i].onClosed
        /\ pc # "idle" => closed = loc.closed_at_invoke
        /\ (Done /\ outcome.k = "raise") =>
              /\ outcome.e.type \notin {"IntegrationAPIError", "RuntimeError", "ClientError"}
              /\ outcome.e.type = "HTTPException" =>
                    /\ flow = "create_appointment"
                    /\ outcome.e = NotFoundError(loc.not_found)
        /\ (Done /\ flow \in SimpleFlows /\ outcome.k = "ret") =>
              outcome.v \in RequesterValues(sent[1].ep)
        /\ (Done /\ flow \in SimpleFlows /\ outcome.k = "raise") =>
              outcome.e = PlainExc("RequesterError")

C18_Witness ==
    /\ Done /\ network_requester /\ flow \in SimpleFlows
    /\ loc.closed_at_invoke
    /\ outcome.k = "ret"
    /\ Len(sent) = 1

\* C19: in default transport mode no request of a flow is issued on a session
\* that the flow itself has closed.
C19_NoRequestAfterOwnClose ==
    (~network_requester /\ flow \in PublicFlows /\ ~loc.closed_at_invoke) =>
        \A i \in 1..Len(sent) : ~sent[i].onClosed

\* the status is neither 2xx, 4xx nor >= 500
OtherStatus(status) == status < 200 \/ (300 <= status /\ status <= 399)

\* C21: a response whose status is below 200 or in 300..399 makes
\* _handle_response raise a generic integration error that carries the original
\* status and the message extracted from the parsed payload ("Unknown error"
\* when there is none), with or without the "(HTTP status)" suffix.
C21_OtherStatusGenericError ==
    (hr.called /\ OtherStatus(hr.status))
        => /\ hr.out.k = "raise"
           /\ hr.out.e.type = "IntegrationAPIError"
           /\ hr.out.e.status = hr.status
           /\ hr.out.e.message \in
                 { ErrorMessage(hr.parsed),
                   ErrorMessage(hr.parsed) \o " (HTTP " \o IntToStr(hr.status) \o ")" }

\* C22: for a 2xx response whose body matches no decoder marker (empty, blank,
\* or literal text such as "true"), _handle_response returns the text exactly as
\* received, raises nothing and leaves the session open.
C22_PassthroughText ==
    (hr.called /\ 200 <= hr.status /\ hr.status <= 299
        /\ FirstOfTrimmed \notin {"<?xml", "<root", "<HTML>", "{"})
        => /\ hr.out.k = "ret"
           /\ hr.out.v.t = "text"
           /\ hr.out.v.body.text = hr.body.text
           /\ ~hr.out.closes
           /\ ~closed

C22_Witness ==
    /\ hr.called
    /\ hr.status = 200
    /\ hr.body.text = <<" ">>
    /\ hr.out.k = "ret"
    /\ hr.out.v.body.text = <<" ">>
    /\ ~closed

\* the entities create_appointment resolves, in the order it checks them
Entities == << "Patient", "Facility", "Provider", "Resource", "Reason", "Visit Type" >>

\* the local that holds what the lookup of an entity found
FieldOf(entity) ==
    CASE entity = "Patient" -> "patient_id" [] entity = "Facility" -> "facility_id"
      [] entity = "Provider" -> "provider_id" [] entity = "Resource" -> "resource_id"
      [] entity = "Reason" -> "reason_name" [] entity = "Visit Type" -> "visit_type"

\* C23: when create_appointment aborts because a lookup found no match, it raises
\* the 404 error that names the first entity, in the order patient, facility,
\* provider, resource, reason, visit type, that was not found: every earlier
\* entity had been found, and the named one had not.
C23_FirstMissingReported ==
    (Done /\ flow = "create_appointment") =>
        /\ loc.not_found # "" => outcome = Raised(NotFoundError(loc.not_found))
        /\ \A k \in 1..Len(Entities) :
              outcome = Raised(NotFoundError(Entities[k])) =>
                  /\ outcome.e.status = 404
                  /\ \A j \in 1..(k - 1) : loc[FieldOf(Entities[j])] # ""
                  /\ loc[FieldOf(Entities[k])] = ""
                  /\ Len(sent) = LookupOf(Entities[k])

C23_Witness ==
    /\ Done /\ flow = "create_appointment" /\ ~network_requester
    /\ outcome = Raised(NotFoundError("Reason"))
    /\ validate_visit_type(req.visit_type).kind = "none"
    /\ loc.resource_id # ""

\* displayIndex a is a numeral below the numeral b
IndexBelow(a, b) == IntParses(a) /\ IntParses(b) /\ StrToInt(a) < StrToInt(b)

\* the displayIndex values of a list are numerals, pairwise distinct and increasing
Increasing(indices) ==
    \A i, j \in 1..Len(indices) : i < j => IndexBelow(indices[i], indices[j])

\* every displayIndex of a list is a numeral
Numerals(indices) == \A i \in 1..Len(indices) : IntParses(indices[i])

MergedIndices == [ i \in 1..Len(mg.out) |-> mg.out[i].displayIndex ]

\* C24 as stated: after a history merge, whatever existing list the portal
\* returned, the displayIndex values of the merged list are pairwise distinct and
\* in increasing order.
C24_MergedIndicesIncreasing ==
    (mg.called /\ mg.ok) => Increasing(MergedIndices)

\* C24 amended: the displayIndex values of the new items are distinct,
\* increasing and above every numeral among the existing items; the whole merged
\* list is distinct and increasing when the existing list the portal returned
\* holds numerals only and is distinct and increasing itself.
C24_MergeKeepsIncreasing ==
    (mg.called /\ mg.ok) =>
        /\ \A i \in 1..Len(mg.existing) : \A k \in 1..mg.n_new :
              mg.existing[i] # "" =>
                  IndexBelow(mg.existing[i], MergedIndices[Len(mg.existing) + k])
        /\ \A k, l \in 1..mg.n_new :
              k < l => IndexBelow(MergedIndices[Len(mg.existing) + k],
                                  MergedIndices[Len(mg.existing) + l])
        /\ (Numerals(mg.existing) /\ Increasing(mg.existing)) => Increasing(MergedIndices)

C24_Witness ==
    /\ mg.called /\ mg.ok
    /\ mg.existing = <<"1", "3">>
    /\ mg.n_new = 2
    /\ MergedIndices = <<"1", "3", "4", "5">>

\* the validator's lookup returned a mapping that holds the list it scans
ScannedList == vd.resp.k = "ret" /\ IsDict(vd.resp.v) /\ HasList(vd.resp.v)

\* positions of the fetched list whose name equals the requested one ignoring case
Hits ==
    { i \in 1..Len(ListOf(vd.resp.v)) : Lower(ListOf(vd.resp.v)[i]) = Lower(vd.name) }

\* C25: validate_provider returns the identifier of the first provider of the
\* search result whose name matches the requested name in lowercase, and
\* not-found when no provider of the result matches.
C25_FirstMatchingProvider ==
    (vd.called /\ vd.validator = "validate_provider" /\ ScannedList) =>
        IF Hits = { } THEN vd.out = NotFound
        ELSE \E i \in Hits :
                /\ \A j \in Hits : i <= j
                /\ vd.out = Found(IdOf(ListOf(vd.resp.v)[i]))

\* C26: validate_facilities and validate_reason return not-found exactly when no
\* entry of the fetched list has the requested name ignoring case; otherwise the
\* data of the last matching entry in list order.  validate_visit_type does the
\* same against the static table, with no request issued.
C26_LastMatchWins ==
    vd.called =>
        /\ (vd.validator \in {"validate_facilities", "validate_reason"} /\ ScannedList) =>
              /\ vd.out = NotFound <=> Hits = { }
              /\ Hits # { } =>
                    \E i \in Hits :
                       /\ \A j \in Hits : j <= i
                       /\ vd.out = Found(IF vd.validator = "validate_facilities"
                                         THEN IdOf(ListOf(vd.resp.v)[i])
                                         ELSE ListOf(vd.resp.v)[i])
        /\ vd.validator = "validate_visit_type" =>
              /\ vd.requests = << >>
              /\ ~closed
              /\ LET T == { i \in 1..Len(reduced_visit_types) :
                              Lower(reduced_visit_types[i].Description) = Lower(vd.name) }
                 IN /\ vd.out = NotFound <=> T = { }
                    /\ T # { } =>
                          \E i \in T : /\ \A j \in T : j <= i
                                       /\ vd.out = Found(reduced_visit_types[i].Name)

C26_Witness ==
    /\ vd.called
    /\ vd.validator = "validate_facilities"
    /\ vd.name = "A"
    /\ ScannedList
    /\ ListOf(vd.resp.v) = <<"a", "A">>
    /\ vd.out = Found(IdOf("A"))

\* C27: validate_facilities, validate_provider and validate_reason, called
\* directly, have released the session when they return or raise.
C27_ValidatorsRelease ==
    (vd.called /\ vd.validator \in NetworkValidators) => closed

IsAllergyEntry(e) == e.key = "set_allergies"

\* the key under which the response of a request is stored
KeyOf(ep) ==
    CASE ep = "set_encounter_details_medical_history" -> "medical_history_set"
      [] ep = "batch_ajax" -> "flags_batch_set"
      [] ep = "set_allergies_for_encounter" -> "set_allergies"

C29_NotAtomic ==
    (Done /\ flow = "update_med_hx_and_allergies" /\ outcome.k = "raise"
          /\ outcome.e.type # "UnboundLocalError") =>
        /\ Len(sent) >= 1
        /\ IsPrefix(EndpointsSent, ExpectedMedHx(req))
        /\ Len(loc.responses) = Len(sent) - 1
        /\ \A j \in 1..Len(loc.responses) : loc.responses[j].key = KeyOf(sent[j].ep)
        /\ outcome.data = << >>
        /\ outcome.v = NoValue

C29_Witness ==
    /\ Done /\ flow = "update_med_hx_and_allergies" /\ ~network_requester
    /\ outcome.k = "raise"
    /\ Len(sent) = 3
    /\ Len(loc.responses) = 2
    /\ sent[3].ep = "set_allergies_for_encounter"
    /\ ~sent[3].onClosed

\* positions in the request log of the requests whose URL carries a timestamp
\* (the outer batch POST carries none)
Stamped == { i \in 1..Len(sent) : sent[i].ep # "batch_ajax" }

\* the envelope entries queued so far by the invocation
Queued ==
    IF flow = "update_history_add_only" THEN loc.batch
    ELSE IF \E i \in 1..Len(sent) : sent[i].ep = "batch_ajax" THEN FlagBatch
    ELSE << >>

\* the section whose existing items a fetch reads
SectionOf(ep) ==
    IF ep = "get_surgical_history" THEN "Surgical History" ELSE "Hospitalization"

C31_OneInFlight ==
    [][ (sent' # sent /\ sent' # << >>) =>
            /\ ~loc.inflight
            /\ loc'.inflight
            /\ Len(sent') = Len(sent) + 1 ]_vars

C31_Witness ==
    /\ flow = "update_med_hx_and_allergies" /\ ~network_requester
    /\ pc = "mh_allergy" /\ loc.inflight
    /\ Len(sent) = 3
    /\ Len(loc.responses) = 2

MultiStepFlows ==
    {"create_appointment", "update_history_add_only", "update_med_hx_and_allergies"}

\* C33: no request is retried.  A single-request flow issues at most one request;
\* create_appointment and update_med_hx_and_allergies issue one request per
\* step of their fixed sequence (one per allergy); update_history_add_only
\* issues at most one request per endpoint, also after a fetch that failed; a
\* flow that raised issued nothing after the request that failed.
C33_NoRetry ==
    flow \in PublicFlows =>
        /\ flow \notin MultiStepFlows => Len(sent) <= 1
        /\ flow = "create_appointment" =>
              /\ Len(sent) <= Len(CreateSteps) + 1
              /\ \A i \in 1..Len(sent) :
                    i <= Len(CreateSteps) => sent[i].ep = CreateSteps[i]
        /\ flow = "update_history_add_only" =>
              /\ \A i, j \in 1..Len(sent) : i < j => sent[i].ep # sent[j].ep
              /\ Len(loc.fetches) <= Cardinality(RequestsTo("get_surgical_history"))
                                     + Cardinality(RequestsTo("get_hospitalization_history"))
        /\ flow = "update_med_hx_and_allergies" =>
              /\ Len(sent) <= Len(ExpectedMedHx(req))
              /\ \A i \in 1..Len(sent) : sent[i].ep = ExpectedMedHx(req)[i]
              /\ \A i, j \in RequestsTo("set_allergies_for_encounter") :
                    i < j => sent[i].form.item < sent[j].form.item

C33_Witness ==
    /\ Done /\ flow = "update_history_add_only" /\ ~network_requester
    /\ Len(loc.fetches) = 1
    /\ loc.fetches[1] = "ClientError"
    /\ Len(sent) = 2
    /\ sent[2].ep = "batch_ajax"

\* the instance is constructed: the one step that gives auth_tokens its value
Constructs ==
    /\ pc = "idle"
    /\ flow' = "none"
    /\ sent' = << >>
    /\ outcome' = NoOutcome
    /\ ~completed'

\* the headers of a request are the ones the instance's auth material gives
CarriesAuth(r) == r.headers = Headers(auth_tokens.Cookie, auth_tokens.x_csrf_token)

\* C34: no step of a public flow modifies the instance's auth material.  Only
\* construction gives auth_tokens a value, and every request an invocation has
\* issued, whether the invocation then succeeded or failed, carried the cookie
\* and the CSRF token the instance still holds.
C34_AuthTokensUnmodified ==
    /\ [](\A i \in 1..Len(sent) : CarriesAuth(sent[i]))
    /\ [][auth_tokens' # auth_tokens => Constructs]_vars

C34_Witness ==
    /\ Done /\ outcome.k = "raise"
    /\ auth_tokens = AuthTokens("2")
    /\ Len(sent) >= 2
    /\ CarriesAuth(sent[1])
    /\ CarriesAuth(sent[Len(sent)])

\* the running flow, invoked on an open session, had a request refused because
\* the session was closed
MetClosedSession ==
    /\ flow \in PublicFlows /\ ~loc.closed_at_invoke
    /\ \E i \in 1..Len(sent) : sent[i].onClosed

\* C32: nothing keeps two invocations on one instance apart.  When the second
\* invocation's completion closes the session that was open until then, a flow
\* invoked before that close has its next request refused: every request it
\* issued earlier went out on the open session, the refused request is its
\* last, and the flow ends raising the closed-session error.  Likewise a
\* request of the second invocation that meets the session closed by a flow's
\* completion ends that invocation with the closed-session error.
C32_NoMutualExclusion ==
    /\ (MetClosedSession /\ ov.pc = "done" /\ ov.closedOpen) =>
          /\ \A i \in 1..Len(sent) : sent[i].onClosed <=> i = Len(sent)
          /\ Done => outcome = Raised(PlainExc("RuntimeError"))
    /\ (ov.pc = "done" /\ ov.onClosed) =>
          /\ ov.k = "raise" /\ ov.exc = "RuntimeError"
          /\ ~ov.closedOpen

\* create_appointment, invoked on an open session, got through its first
\* lookups, then the other invocation ended and closed the session, and the
\* next lookup of create_appointment was refused
C32_Witness ==
    /\ Done /\ flow = "create_appointment" /\ MetClosedSession
    /\ ov.pc = "done" /\ ov.k = "ret" /\ ov.closedOpen
    /\ Len(sent) >= 3
    /\ sent[Len(sent)].onClosed
    /\ outcome = Raised(PlainExc("RuntimeError"))

====
